---------------------------- MODULE Spec2Model ----------------------------
(***************************************************************************)
(* A model of trace.rs (src/src/main.rs): the vector algebra, the          *)
(* ray-sphere intersection and the per-pixel shading loop of main.         *)
(*                                                                         *)
(* Numbers.  The program computes in f32.  The model computes in signed    *)
(* fixed point: the integer a stands for the real a / Scale, and every     *)
(* multiplication, division and square root rounds its exact result to     *)
(* the nearest representable value, as an IEEE operation does.  Sums and   *)
(* differences are exact.  NaN and infinities do not arise: the only       *)
(* square roots are of dot(v, v) and of sr2 - d2 behind the d2 > sr2       *)
(* guard, and normalize is never applied to a zero vector by the scenes    *)
(* below (TLC would report the division by zero).                          *)
(***************************************************************************)
EXTENDS Integers, Sequences, FiniteSets

\* The state of main: the scene (`spheres`, `lights`), the reused `ray`, the
\* loop counters `x` and `y`, the byte buffer `pixels`, the written `file`
\* and the position `pc`.  For a call of Sphere::intersects on its own:
\* the receiver `self`, the argument `ray` and the returned `result`.
VARIABLES spheres, lights, ray, x, y, pixels, file, pc, self, result

vars == <<spheres, lights, ray, x, y, pixels, file, pc, self, result>>

\* The fixed-point unit: the integer Scale stands for 1.0.
Scale == 1024

\* ------------------------------------------------------------ arithmetic

Abs(a) == IF a < 0 THEN -a ELSE a

Min(a, b) == IF a < b THEN a ELSE b

Max(a, b) == IF a > b THEN a ELSE b

\* n / d rounded to the nearest integer (d > 0), ties away from zero.
RoundDiv(n, d) ==
  IF n >= 0 THEN (2 * n + d) \div (2 * d) ELSE -((2 * (-n) + d) \div (2 * d))

RECURSIVE SqrtIter(_, _)
SqrtIter(n, r) ==
  LET q == (r + n \div r) \div 2
  IN  IF q >= r THEN r ELSE SqrtIter(n, q)

\* floor(sqrt(n)) for n >= 0.
ISqrt(n) == IF n = 0 THEN 0 ELSE SqrtIter(n, n)

\* f32 `*`
FMul(a, b) == RoundDiv(a * b, Scale)

\* f32 `/` (the program only divides by positive values)
FDiv(a, b) == RoundDiv(a * Scale, b)

\* f32::sqrt, rounded to nearest
FSqrt(a) == (ISqrt(4 * a * Scale) + 1) \div 2

\* An integer literal n as a fixed-point value (n.0).
Lit(n) == n * Scale

\* ------------------------------------------------------------- Vector3D

Vec(a, b, c) == <<a, b, c>>

clone(v) == Vec(v[1], v[2], v[3])

mul(v, scalar) == Vec(FMul(v[1], scalar), FMul(v[2], scalar), FMul(v[3], scalar))

dot(v, other) == FMul(v[1], other[1]) + FMul(v[2], other[2]) + FMul(v[3], other[3])

add(v, other) == Vec(v[1] + other[1], v[2] + other[2], v[3] + other[3])

sub(v, other) == Vec(v[1] - other[1], v[2] - other[2], v[3] - other[3])

magnitude(v) == FSqrt(dot(v, v))

normalize(v) ==
  LET s == FDiv(Lit(1), magnitude(v))
  IN  Vec(FMul(v[1], s), FMul(v[2], s), FMul(v[3], s))

\* clamp with min and max exchanged: x.max(max).min(min).
clamp_swapped(v, min, max) ==
  Vec(Min(Max(v[1], max), min), Min(Max(v[2], max), min), Min(Max(v[3], max), min))

\* f32::min then f32::max, as written: x.min(max).max(min)
clamp(v, min, max) ==
  Vec(Max(Min(v[1], max), min), Max(Min(v[2], max), min), Max(Min(v[3], max), min))

\* `as u8` on an f32: truncation toward zero, saturating at 0 and 255.
AsU8(a) == IF a < 0 THEN 0 ELSE Min(a \div Scale, 255)

rgb(v) ==
  <<AsU8(FMul(v[1], Lit(255))), AsU8(FMul(v[2], Lit(255))), AsU8(FMul(v[3], Lit(255)))>>

\* --------------------------------------------------------------- Sphere

\* Option<f32>
None == <<>>

Some(d) == <<d>>

is_none(r) == r = None

\* intersects choosing the far root: `if t0 < t1 { t1 } else { t0 }`.
intersects_far(sphere, r) ==
  LET oc   == sub(sphere.position, r.origin)
      tca  == dot(oc, r.direction)
      sr2  == FMul(sphere.radius, sphere.radius)
      d2   == dot(oc, oc) - FMul(tca, tca)
      thc  == FSqrt(sr2 - d2)
  IN  IF tca < 0 THEN None
      ELSE IF d2 > sr2 THEN None
      ELSE Some(tca + thc)

\* intersects without the `t0 < 0` arms: always the near root.
intersects_near(sphere, r) ==
  LET oc   == sub(sphere.position, r.origin)
      tca  == dot(oc, r.direction)
      sr2  == FMul(sphere.radius, sphere.radius)
      d2   == dot(oc, oc) - FMul(tca, tca)
      thc  == FSqrt(sr2 - d2)
  IN  IF tca < 0 THEN None
      ELSE IF d2 > sr2 THEN None
      ELSE Some(tca - thc)

\* intersects without the `tca < 0` early return.
intersects_no_tca_check(sphere, r) ==
  LET oc   == sub(sphere.position, r.origin)
      tca  == dot(oc, r.direction)
      sr2  == FMul(sphere.radius, sphere.radius)
      d2   == dot(oc, oc) - FMul(tca, tca)
      thc  == FSqrt(sr2 - d2)
      t0   == tca - thc
      t1   == tca + thc
  IN  IF d2 > sr2 THEN None
      ELSE IF t0 < 0 /\ t1 < 0 THEN None
      ELSE IF t0 < 0 THEN Some(t1)
      ELSE IF t1 < 0 THEN Some(t0)
      ELSE Some(IF t0 < t1 THEN t0 ELSE t1)

intersects(sphere, r) ==
  LET oc   == sub(sphere.position, r.origin)
      tca  == dot(oc, r.direction)
      l2oc == dot(oc, oc)
      sr2  == FMul(sphere.radius, sphere.radius)
      d2   == l2oc - FMul(tca, tca)
      thc  == FSqrt(sr2 - d2)
      t0   == tca - thc
      t1   == tca + thc
  IN  IF tca < 0 THEN None
      ELSE IF d2 > sr2 THEN None
      ELSE IF t0 < 0 /\ t1 < 0 THEN None
      ELSE IF t0 < 0 THEN Some(t1)
      ELSE IF t1 < 0 THEN Some(t0)
      ELSE Some(IF t0 < t1 THEN t0 ELSE t1)

surface_normal(sphere, hit_point) == normalize(sub(hit_point, sphere.position))


\* ----------------------------------------------------------------- main

\* The raster.  The program renders 800 x 600; the model a small raster.
WIDTH == 4

HEIGHT == 3

F_WIDTH == Lit(WIDTH)

F_HEIGHT == Lit(HEIGHT)

ASPECT == FDiv(F_WIDTH, F_HEIGHT)

\* The scenes: sequences of spheres and of lights drawn from these pools.
MaxSpheres == 2

MaxLights == 2

Sphere(p, c, rad) == [position |-> p, color |-> c, radius |-> rad]

Light(d, i) == [direction |-> d, intensity |-> i]

Ray(o, d) == [origin |-> o, direction |-> d]

\* The first sphere is the program's first sphere; the others are placed in
\* front of it, around it and beside it so that rays hit two spheres at once
\* and shadow rays are cut.
SpherePool ==
  { Sphere(Vec(0, 0, -Lit(5)), Vec(Lit(1), 0, 0), Lit(1)),
    Sphere(Vec(0, 0, -Lit(3)), Vec(0, 0, Lit(1)), Scale \div 2),
    Sphere(Vec(0, 0, -Lit(6)), Vec(Lit(1), Lit(1), Lit(1)), Lit(3)),
    Sphere(Vec(Lit(2), 0, -Lit(4)), Vec((3 * Scale) \div 10, (3 * Scale) \div 10, (3 * Scale) \div 10), Lit(1)) }

\* The first light is the program's first light; the second has the
\* direction of the program's second light and is brighter than 1.0; the
\* third shines sideways with a negative intensity.
LightPool ==
  { Light(Vec(0, 0, -Lit(4)), Scale \div 10),
    Light(Vec(0, -(Scale \div 2), -Lit(4)), Lit(2)),
    Light(Vec(Lit(1), 0, 0), -(Scale \div 2)) }

\* The sequences of 1 to n distinct elements of S.
SeqsUpTo(S, n) ==
  UNION { { q \in [1..k -> S] : \A i, j \in 1..k : i # j => q[i] # q[j] } : k \in 1..n }

\* rx, ry and the normalised direction of the primary ray of pixel (px, py).
PrimaryDirection(px, py) ==
  LET rx == FMul(FMul(FDiv(Lit(px) + Scale \div 2, F_WIDTH), Lit(2)) - Lit(1), ASPECT)
      ry == Lit(1) - FMul(FDiv(Lit(py) + Scale \div 2, F_HEIGHT), Lit(2))
  IN  normalize(Vec(rx, ry, -Lit(3)))

light_dir(light) == mul(normalize(light.direction), -Lit(1))

RECURSIVE SumIntensity(_, _, _, _)
SumIntensity(ss, shadow_ray, light, i) ==
  IF i > Len(ss) THEN 0
  ELSE (IF is_none(intersects(ss[i], shadow_ray)) THEN light.intensity ELSE 0)
       + SumIntensity(ss, shadow_ray, light, i + 1)

\* spheres.iter().map(|s| ...).sum() for one light
light_intensity(ss, hit_point, light) ==
  SumIntensity(ss, Ray(clone(hit_point), clone(light_dir(light))), light, 1)

RECURSIVE AccumulateLights(_, _, _, _, _, _)
AccumulateLights(ss, ls, hit_point, normal, i, acc) ==
  IF i > Len(ls) THEN acc
  ELSE AccumulateLights(ss, ls, hit_point, normal, i + 1,
         acc + FMul(Max(dot(normal, light_dir(ls[i])), 0),
                    light_intensity(ss, hit_point, ls[i])))

\* light_power assigned, not accumulated: `light_power = ...` for `+=`.
light_power_assigned(ss, ls, sphere, hit_point) ==
  IF Len(ls) = 0 THEN 0
  ELSE FMul(Max(dot(surface_normal(sphere, hit_point), light_dir(ls[Len(ls)])), 0),
            light_intensity(ss, hit_point, ls[Len(ls)]))

\* light_power after the loop over the lights ls, for a hit of `sphere`
light_power(ss, ls, sphere, hit_point) ==
  AccumulateLights(ss, ls, hit_point, surface_normal(sphere, hit_point), 1, 0)

hit_point_of(r, distance) == add(r.origin, mul(r.direction, distance))

\* The pixel a hit of `sphere` at `distance` assigns.
shade(ss, ls, sphere, r, distance) ==
  rgb(clamp(mul(sphere.color, light_power(ss, ls, sphere, hit_point_of(r, distance))),
            0, Lit(1)))

RECURSIVE SphereLoop(_, _, _, _, _)
SphereLoop(ss, ls, r, i, pixel) ==
  IF i > Len(ss) THEN pixel
  ELSE LET hit == intersects(ss[i], r)
       IN  SphereLoop(ss, ls, r, i + 1,
             IF ~is_none(hit) /\ hit[1] >= 0
               THEN shade(ss, ls, ss[i], r, hit[1])
               ELSE pixel)

RECURSIVE FirstHitLoop(_, _, _, _)
FirstHitLoop(ss, ls, r, i) ==
  IF i > Len(ss) THEN <<0, 0, 0>>
  ELSE LET hit == intersects(ss[i], r)
       IN  IF ~is_none(hit) /\ hit[1] >= 0
             THEN shade(ss, ls, ss[i], r, hit[1])
             ELSE FirstHitLoop(ss, ls, r, i + 1)

\* The sphere loop left at the first hit (a `break` after the assignment).
trace_pixel_first_hit(ss, ls, r) == FirstHitLoop(ss, ls, r, 1)

\* `pixel` declared once before the loops: a pixel starts as the previous one.
trace_pixel_keeps_previous(ss, ls, r) ==
  SphereLoop(ss, ls, r, 1,
    IF pixels = <<>> THEN <<0, 0, 0>> ELSE SubSeq(pixels, Len(pixels) - 2, Len(pixels)))

\* The body of the pixel loop: the triplet appended for the primary ray r.
trace_pixel(ss, ls, r) == SphereLoop(ss, ls, r, 1, <<0, 0, 0>>)

Origin == Vec(0, 0, 0)

Init ==
  /\ spheres \in SeqsUpTo(SpherePool, MaxSpheres)
  /\ lights \in SeqsUpTo(LightPool, MaxLights)
  /\ ray = Ray(Origin, Vec(0, 0, 0))
  /\ x = 0
  /\ y = 0
  /\ pixels = <<>>
  /\ file = <<>>
  /\ pc = "render"
  /\ self = spheres[1]
  /\ result = None

\* The triplet appended only where a sphere was hit (extend_from_slice moved
\* into the Some arm).
RenderPixelHitsOnly ==
  /\ pc = "render"
  /\ y < HEIGHT
  /\ LET direction == PrimaryDirection(x, y)
         r == Ray(ray.origin, direction)
     IN  /\ ray' = [ray EXCEPT !.direction = direction]
         /\ pixels' = IF \E i \in 1..Len(spheres) : ~is_none(intersects(spheres[i], r))
                        THEN pixels \o trace_pixel(spheres, lights, r)
                        ELSE pixels
  /\ x' = IF x + 1 < WIDTH THEN x + 1 ELSE 0
  /\ y' = IF x + 1 < WIDTH THEN y ELSE y + 1
  /\ UNCHANGED <<spheres, lights, file, pc, self, result>>

\* One iteration of `for x in 0..WIDTH` inside `for y in 0..HEIGHT`.
RenderPixel ==
  /\ pc = "render"
  /\ y < HEIGHT
  /\ LET direction == PrimaryDirection(x, y)
     IN  /\ ray' = [ray EXCEPT !.direction = direction]
         /\ pixels' = pixels \o trace_pixel(spheres, lights, Ray(ray.origin, direction))
  /\ x' = IF x + 1 < WIDTH THEN x + 1 ELSE 0
  /\ y' = IF x + 1 < WIDTH THEN y ELSE y + 1
  /\ UNCHANGED <<spheres, lights, file, pc, self, result>>

\* File::create, write_fmt of the header, write_all of the buffer.
WriteFile ==
  /\ pc = "render"
  /\ y = HEIGHT
  /\ file' = <<"P6", WIDTH, HEIGHT, 255, pixels>>
  /\ pc' = "done"
  /\ UNCHANGED <<spheres, lights, ray, x, y, pixels, self, result>>

Next == RenderPixel \/ WriteFile

Spec == Init /\ [][Next]_vars

\* ------------------------------------------- Sphere::intersects, alone

\* The arguments of a call: centres, radii (in halves of 1.0) and ray
\* origins on the integer grid; the direction is that of a normalised
\* vector from the origin to another grid point, as every ray of main is.
MaxCoord == 1

MaxRadius == 3

Grid ==
  { Vec(Lit(a), Lit(b), Lit(c)) : a \in -MaxCoord..MaxCoord,
                                  b \in -MaxCoord..MaxCoord,
                                  c \in -MaxCoord..MaxCoord }

Centers == { Vec(0, 0, 0), Vec(Lit(1), 0, -Lit(1)) }

Radii == { k * (Scale \div 2) : k \in 1..MaxRadius }

White == Vec(Lit(1), Lit(1), Lit(1))

InitIntersects ==
  /\ \E c \in Centers, rad \in Radii : self = Sphere(c, White, rad)
  /\ \E o \in Grid, target \in Grid :
       /\ target # o
       /\ ray = Ray(o, normalize(sub(target, o)))
  /\ result = None
  /\ pc = "call"
  /\ spheres = <<self>>
  /\ lights = <<>>
  /\ x = 0
  /\ y = 0
  /\ pixels = <<>>
  /\ file = <<>>

CallIntersects ==
  /\ pc = "call"
  /\ result' = intersects(self, ray)
  /\ pc' = "returned"
  /\ UNCHANGED <<spheres, lights, ray, x, y, pixels, file, self>>

NextIntersects == CallIntersects

SpecIntersects == InitIntersects /\ [][NextIntersects]_vars

\* The locals of Sphere::intersects for the call in the state.
Oc == sub(self.position, ray.origin)

Tca == dot(Oc, ray.direction)

Sr2 == FMul(self.radius, self.radius)

D2 == dot(Oc, Oc) - FMul(Tca, Tca)

Thc == FSqrt(Sr2 - D2)

T0 == Tca - Thc

T1 == Tca + Thc

\* The ray's origin lies outside the sphere / strictly inside it.
OriginOutside == dot(Oc, Oc) > Sr2

OriginInside == dot(Oc, Oc) < Sr2

\* The ray's direction is the normalised vector from its origin to the centre.
AimedAtCenter == Oc # Vec(0, 0, 0) /\ ray.direction = normalize(Oc)

\* The rounding error allowed to a distance: 1/8 of 1.0.  The fixed-point
\* reciprocal 1 / magnitude in normalize carries most of it.
Epsilon == Scale \div 8

\* C5 as stated: for a ray from outside aimed exactly at the centre,
\* intersects returns exactly |origin - center| - radius.
C5_ExactDistance ==
  (pc = "returned" /\ OriginOutside /\ AimedAtCenter)
    => result = Some(magnitude(Oc) - self.radius)

\* C5 as amended: for a ray from outside aimed exactly at the centre,
\* intersects returns a distance, and the distance is within Epsilon of
\* |origin - center| - radius.
C5_DistanceWithinEpsilon ==
  (pc = "returned" /\ OriginOutside /\ AimedAtCenter)
    => /\ result # None
       /\ Abs(result[1] - (magnitude(Oc) - self.radius)) <= Epsilon

\* A call from outside, aimed at the centre along no axis, has returned a
\* distance that is not exactly |origin - center| - radius.
C5_Witness ==
  /\ pc = "returned" /\ OriginOutside /\ AimedAtCenter
  /\ result # None
  /\ result[1] # magnitude(Oc) - self.radius
  /\ ray.direction[1] # 0 /\ ray.direction[3] # 0

\* C8: a returned distance is non-negative and is the nearest non-negative
\* intersection: t0 = tca - thc when t0 >= 0, else t1 = tca + thc; and no
\* distance is returned when t0 and t1 are both negative.
C8_NearestNonNegative ==
  pc = "returned" =>
    /\ result # None =>
         /\ result[1] >= 0
         /\ result[1] = (IF T0 >= 0 THEN T0 ELSE T1)
    /\ (D2 <= Sr2 /\ T0 < 0 /\ T1 < 0) => result = None

\* A call whose origin is inside the sphere has returned the far root t1,
\* t0 being negative.
C8_Witness ==
  /\ pc = "returned" /\ result # None
  /\ T0 < 0 /\ T1 > 0 /\ result[1] = T1

\* C9: intersects returns none for every ray with tca < 0, the rays that
\* start strictly inside the sphere included, and for every ray with
\* d2 > radius^2.
C9_BehindOrMissed ==
  pc = "returned" =>
    /\ Tca < 0 => result = None
    /\ D2 > Sr2 => result = None

\* A call whose origin is strictly inside the sphere, with the centre behind
\* the origin, has returned none.
C9_Witness ==
  /\ pc = "returned" /\ OriginInside /\ Oc # Vec(0, 0, 0)
  /\ Tca < 0 /\ D2 <= Sr2 /\ T1 > 0
  /\ result = None

\* ------------------------------------------------- the rendered pixels

\* A pixel has been appended; `ray` is then its primary ray.
Rendered == Len(pixels) > 0

LastTriplet == SubSeq(pixels, Len(pixels) - 2, Len(pixels))

\* The spheres, by position in the scene, the primary ray intersects.
Hits == { i \in 1..Len(spheres) : intersects(spheres[i], ray) # None }

LastHit == CHOOSE i \in Hits : \A j \in Hits : j <= i

HitDistance(i) == intersects(spheres[i], ray)[1]

HitPoint(i) == hit_point_of(ray, HitDistance(i))

ShadowRay(hit_point, light) == Ray(hit_point, light_dir(light))

\* Some sphere of the scene is intersected by the shadow ray.
Occluded(hit_point, light) ==
  \E k \in 1..Len(spheres) :
    intersects(spheres[k], ShadowRay(hit_point, light)) # None

RemoveAt(ss, i) == SubSeq(ss, 1, i - 1) \o SubSeq(ss, i + 1, Len(ss))

\* C1: at every hit point, for every light, the shadow contribution
\* (light_intensity) is 0 if some sphere of the scene is intersected by the
\* shadow ray, and exactly light.intensity otherwise.
C1_ShadowContribution ==
  Rendered =>
    \A i \in Hits : \A j \in 1..Len(lights) :
      light_intensity(spheres, HitPoint(i), lights[j])
        = (IF Occluded(HitPoint(i), lights[j]) THEN 0 ELSE lights[j].intensity)

\* C2: the triplet appended for a pixel is the shaded colour of the last
\* sphere in scene order that the primary ray intersects.
C2_LastHitWins ==
  (Rendered /\ Hits # {}) =>
    LastTriplet = shade(spheres, lights, spheres[LastHit], ray, HitDistance(LastHit))

\* The primary ray hits the first sphere nearer than the second, the two
\* shade differently, and the pixel is the second sphere's colour.
C2_Witness ==
  /\ Rendered /\ Len(spheres) = 2 /\ Hits = {1, 2}
  /\ HitDistance(1) < HitDistance(2)
  /\ shade(spheres, lights, spheres[1], ray, HitDistance(1))
       # shade(spheres, lights, spheres[2], ray, HitDistance(2))
  /\ LastTriplet = shade(spheres, lights, spheres[2], ray, HitDistance(2))

\* C3: the triplet appended for a pixel whose primary ray no sphere
\* intersects is (0, 0, 0).
C3_BackgroundBlack ==
  (Rendered /\ Hits = {}) => LastTriplet = <<0, 0, 0>>

\* A black background pixel has been appended after a lit one.
C3_Witness ==
  /\ Rendered /\ Hits = {} /\ LastTriplet = <<0, 0, 0>>
  /\ \E k \in 1..Len(pixels) : pixels[k] > 0

\* C4 (states): the buffer holds one triplet per processed pixel, so
\* 3 * (y * WIDTH + x) bytes when (x, y) is the next pixel and
\* WIDTH * HEIGHT * 3 bytes when the loops have ended; the last triplet is
\* that of the pixel at its offset.
BufferIsRowMajor ==
  /\ Len(pixels) = 3 * (y * WIDTH + x)
  /\ x \in 0..(WIDTH - 1)
  /\ y = HEIGHT => Len(pixels) = WIDTH * HEIGHT * 3
  /\ pc = "done" => (y = HEIGHT /\ file[5] = pixels)
  /\ Rendered =>
       LET k == Len(pixels) \div 3 - 1
       IN  /\ ray.direction = PrimaryDirection(k % WIDTH, k \div WIDTH)
           /\ LastTriplet = trace_pixel(spheres, lights, ray)

\* C4 (steps): a step appends one triplet or none and rewrites no byte.
BufferOnlyGrows ==
  /\ Len(pixels') \in {Len(pixels), Len(pixels) + 3}
  /\ SubSeq(pixels', 1, Len(pixels)) = pixels

\* C4: one RGB triplet is appended per pixel in row-major order: after k
\* pixels the buffer holds 3 * k bytes, the triplet of pixel (x, y) is at
\* offset 3 * (y * WIDTH + x) and is never rewritten, and the buffer ends
\* with WIDTH * HEIGHT * 3 bytes.
C4_RowMajorBuffer == []BufferIsRowMajor /\ [][BufferOnlyGrows]_vars

\* The loops have ended on a full buffer that holds a lit pixel, and the
\* buffer has been written.
C4_Witness ==
  /\ pc = "done" /\ Len(pixels) = WIDTH * HEIGHT * 3 /\ file[5] = pixels
  /\ \E k \in 1..Len(pixels) : pixels[k] > 0

\* light_power for the hit of sphere i by the primary ray, over the lights ls.
PowerAt(i, ls) == light_power(spheres, ls, spheres[i], HitPoint(i))

\* C6: at every hit point, the light power accumulated over two lights is
\* the sum of the light powers of each light alone, in either order.
C6_LightsSuperpose ==
  Rendered =>
    \A i \in Hits : \A a, b \in 1..Len(lights) :
      a < b =>
        LET both == PowerAt(i, <<lights[a], lights[b]>>)
        IN  /\ both = PowerAt(i, <<lights[a]>>) + PowerAt(i, <<lights[b]>>)
            /\ both = PowerAt(i, <<lights[b], lights[a]>>)

\* A hit point that two lights light differently, neither with power 0.
C6_Witness ==
  /\ Rendered /\ Len(lights) = 2 /\ Hits # {}
  /\ PowerAt(LastHit, <<lights[1]>>) # 0
  /\ PowerAt(LastHit, <<lights[2]>>) # 0
  /\ PowerAt(LastHit, <<lights[1]>>) # PowerAt(LastHit, <<lights[2]>>)
  /\ PowerAt(LastHit, lights) = PowerAt(LastHit, <<lights[1]>>) + PowerAt(LastHit, <<lights[2]>>)

\* floor(255 * min(1, max(0, c)))
ClampedByte(c) == (255 * Min(Lit(1), Max(0, c))) \div Scale

ClampedBytes(v) == <<ClampedByte(v[1]), ClampedByte(v[2]), ClampedByte(v[3])>>

\* sphere.color * light_power for the hit of sphere i by the primary ray.
ColorAt(i) == mul(spheres[i].color, PowerAt(i, lights))

\* C7: for every hit, each byte of the shaded pixel is
\* floor(255 * min(1, max(0, component))) of sphere.color * light_power, and
\* every byte of the buffer lies in 0..255.
C7_ClampedBytes ==
  Rendered =>
    /\ \A k \in 1..Len(pixels) : pixels[k] \in 0..255
    /\ \A i \in Hits :
         shade(spheres, lights, spheres[i], ray, HitDistance(i)) = ClampedBytes(ColorAt(i))
    /\ Hits # {} => LastTriplet = ClampedBytes(ColorAt(LastHit))

\* A pixel whose light power exceeds 1.0 has been emitted with a byte 255.
C7_Witness ==
  /\ Rendered /\ Hits # {}
  /\ PowerAt(LastHit, lights) > Lit(1)
  /\ LET color == ColorAt(LastHit)
     IN  \E c \in 1..3 : color[c] > Lit(1) /\ LastTriplet[c] = 255

\* The Lambert term of light j at the hit of sphere i, the self-test of the
\* shadow ray left out: the hit sphere counts as not intersected.
RECURSIVE PowerSelfUntested(_, _)
PowerSelfUntested(i, j) ==
  IF j > Len(lights) THEN 0
  ELSE FMul(Max(dot(surface_normal(spheres[i], HitPoint(i)), light_dir(lights[j])), 0),
            light_intensity(RemoveAt(spheres, i), HitPoint(i), lights[j])
              + lights[j].intensity)
       + PowerSelfUntested(i, j + 1)

=============================================================================
